---- MODULE Spec2Model ----
(***************************************************************************)
(* Model of Backend/services/WebSocket.py: the connection manager          *)
(* (stream_trades), the trade sink (flush_trade), the aggregation buffer   *)
(* (ohlcv_buffer) and the periodic flusher (periodic_ohlcv_flush /         *)
(* flush_ohlcv).  The two asyncio tasks are interleaved at their awaits:   *)
(* every action below is the code that runs between two suspension points. *)
(***************************************************************************)
EXTENDS Integers, Sequences, FiniteSets, TLC

\* ------------------------------------------------------------------ bounds
NumSymbols == 2       \* instrument identifiers are 1..NumSymbols
MaxBatch   == 2       \* entries in the "data" list of one trade message
MaxTrades  == 2       \* valid trades accepted over a run (sample ids)
MaxFlushes == 2       \* invocations of flush_ohlcv over a run

Symbols == 1..NumSymbols
Prices  == {1, 2}     \* prices on the wire
Vols    == {1}        \* volumes on the wire, when the entry has one
Stamps  == {1, 2}     \* feed timestamps on the wire

\* ------------------------------------------------------- python encodings
None     == -1        \* Python None
Absent   == -2        \* the key is not in the decoded JSON object
EmptySym == 0         \* the empty string as an instrument identifier

\* reconnect_delay = 3 (also its reset) and max_delay = 60
floor_delay == 3
max_delay   == 60

\* line 128: asyncio.sleep(30) when there is nothing to subscribe to
cooldown_delay == 30

Min2(a, b) == IF a <= b THEN a ELSE b

\* dict.get(key, default) on a decoded entry
Get(e, key, default) == IF e[key] = Absent THEN default ELSE e[key]

\* the entries a trade message's "data" list may hold: an element that is not
\* a JSON object, and objects with each of "s", "p", "v" present or missing;
\* the well-formed ones differ in one field: the price, the timestamp, or the
\* volume being absent
NotDict == [dict |-> FALSE, s |-> Absent, p |-> Absent, t |-> Absent, v |-> Absent]

Entries ==
    {NotDict} \cup
    [dict : {TRUE}, s : Symbols, p : Prices, t : {1}, v : Vols] \cup
    [dict : {TRUE}, s : Symbols, p : {1}, t : Stamps, v : Vols] \cup
    [dict : {TRUE}, s : Symbols, p : {1}, t : {1}, v : {Absent}] \cup
    [dict : {TRUE}, s : {Absent, EmptySym}, p : {1}, t : {1}, v : {1}] \cup
    [dict : {TRUE}, s : {1}, p : {Absent}, t : {1}, v : {1}]

\* flush_trade's guard, line 50: if not symbol or price is None
NoSymbolOrPriceAlt(symbol, price) == symbol = None \/ symbol = EmptySym
NoSymbolOrPrice(symbol, price) ==
    symbol = None \/ symbol = EmptySym \/ price = None

\* line 150: min(reconnect_delay * 2, max_delay)
NextDelayNoCap(d) == d * 2
NextDelay(d) == Min2(d * 2, max_delay)

\* the except clauses of lines 141-146
CaughtNoGeneric(e) == e \in {"Timeout", "Closed"}
CaughtNoTimeout(e) == e \in {"Closed", "Other"}
Caught(e) == e \in {"Timeout", "Closed", "Other"}

\* leaving the "async with websockets.connect(...)" block closes the socket
OpenAfterExitLeak(n) == n
OpenAfterExit(n) == n - 1

VARIABLES
    mpc,              \* where stream_trades is suspended
    exc,              \* the exception in flight ("none": none)
    live,             \* open upstream connections
    reconnect_delay,  \* line 108
    prevSleep,        \* history: last backoff sleep since the last handshake (0: none)
    symbols,          \* line 125
    toSend,           \* instruments the subscribe loop has still to visit
    sent,             \* history: subscribe messages sent on this connection
    batchLeft,        \* entries of data.get("data", []) the for loop has not visited
    trade,            \* lines 138, 43: the entry flush_trade was called on last (its parameter)
    cooled,           \* history: length of the cooldown sleep that just ended (0: none)
    msg,              \* history: shape of the message line 136 decoded last
    sink,             \* history: outcome of the pipeline for the entry in hand
    ohlcv_buffer,     \* line 32: dict in insertion order, <<[sym, trades]>>
    store_price,      \* stock:price:<symbol>
    store_trade,      \* stock:trade:<symbol>
    store_ohlcv,      \* stock:ohlcv:<symbol>
    fpc,              \* where periodic_ohlcv_flush is suspended
    it_pos,           \* the dict iterator's position (di_pos)
    it_used,          \* the dict's size when the iterator was made (di_used)
    flushCount,       \* history: invocations of flush_ohlcv started
    failed,           \* history: instruments whose hset failed in the pass in progress
    nTrades,          \* history: samples appended
    lost              \* history: a sample left the buffer unread by any flush

mvars == <<mpc, exc, live, reconnect_delay, prevSleep, symbols, toSend, sent, batchLeft, trade,
          cooled, msg, sink>>
svars == <<store_price, store_trade, store_ohlcv>>
fvars == <<fpc, it_pos, it_used, flushCount, failed>>
vars  == <<mvars, ohlcv_buffer, svars, fvars, nTrades, lost>>

NoTrade == [price |-> None, timestamp |-> None, volume |-> None]
NoOhlcv == [open |-> None, high |-> None, low |-> None, close |-> None, volume |-> None]
NoEntry == [dict |-> FALSE, s |-> None, p |-> None, t |-> None, v |-> None]

Init ==
    /\ mpc = "connect"
    /\ exc = "none"
    /\ live = 0
    /\ reconnect_delay = floor_delay
    /\ prevSleep = 0
    /\ symbols = {}
    /\ toSend = {}
    /\ sent = [s \in Symbols |-> 0]
    /\ batchLeft = 0
    /\ trade = NoEntry
    /\ cooled = 0
    /\ msg = "none"
    /\ sink = "none"
    /\ ohlcv_buffer = <<>>
    /\ store_price = [s \in Symbols |-> None]
    /\ store_trade = [s \in Symbols |-> NoTrade]
    /\ store_ohlcv = [s \in Symbols |-> NoOhlcv]
    /\ fpc = "sleep"
    /\ it_pos = 0
    /\ it_used = 0
    /\ flushCount = 0
    /\ failed = {}
    /\ nTrades = 0
    /\ lost = FALSE

\* ------------------------------------------------------ connection manager

\* an exception raised in the try block meets the except clauses
Handle(e) == IF Caught(e) THEN "backoff" ELSE "exited"

\* lines 120-123: the handshake succeeds
ConnectOk ==
    /\ mpc = "connect"
    /\ live' = live + 1
    /\ reconnect_delay' = floor_delay
    /\ prevSleep' = 0
    /\ mpc' = "fetch"
    /\ UNCHANGED <<exc, symbols, toSend, sent, batchLeft, trade, ohlcv_buffer, svars, fvars, nTrades, lost,
                   cooled, msg, sink>>

\* line 121 raises: no connection was made
ConnectFail ==
    /\ mpc = "connect"
    /\ \E e \in {"Timeout", "Other"} :
        /\ exc' = e
        /\ mpc' = Handle(e)
    /\ UNCHANGED <<live, reconnect_delay, prevSleep, symbols, toSend, sent, batchLeft, trade,
                   ohlcv_buffer, svars, fvars, nTrades, lost,
                   cooled, msg, sink>>

\* line 126: an empty set goes to the sleep of line 128, any other to the
\* subscribe loop
AfterFetchAlways(got) == "subscribe"
AfterFetch(got) == IF got = {} THEN "cooldown" ELSE "subscribe"

\* lines 35-41 and 125-129: get_symbols returns the stored set, or set() when
\* the store fails
GetSymbols ==
    /\ mpc = "fetch"
    /\ \E got \in SUBSET Symbols :
        /\ symbols' = got
        /\ toSend' = got
        /\ mpc' = AfterFetch(got)
    /\ UNCHANGED <<exc, live, reconnect_delay, prevSleep, sent, batchLeft, trade,
                   ohlcv_buffer, svars, fvars, nTrades, lost,
                   cooled, msg, sink>>

\* lines 128-129: the sleep ends and "continue" leaves the connection block
Cooldown ==
    /\ mpc = "cooldown"
    /\ cooled' = cooldown_delay
    /\ mpc' = "aexit"
    /\ UNCHANGED <<exc, live, reconnect_delay, prevSleep, symbols, toSend, sent, batchLeft, trade,
                   ohlcv_buffer, svars, fvars, nTrades, lost,
                   msg, sink>>

\* the elements a for loop over a set has left after visiting one
LoopRestNone(S, x) == {}
LoopRest(S, x) == S \ {x}

\* lines 131-132: one ws.send per element of the set, then the receive loop
Subscribe ==
    /\ mpc = "subscribe"
    /\ \E sym \in toSend :
        /\ sent' = [sent EXCEPT ![sym] = @ + 1]
        /\ toSend' = LoopRest(toSend, sym)
        /\ mpc' = IF toSend' = {} THEN "recv" ELSE "subscribe"
    /\ UNCHANGED <<exc, live, reconnect_delay, prevSleep, symbols, batchLeft, trade,
                   ohlcv_buffer, svars, fvars, nTrades, lost,
                   cooled, msg, sink>>

\* line 132 raises
SubscribeFail ==
    /\ mpc = "subscribe"
    /\ \E e \in {"Closed", "Other"} : exc' = e
    /\ mpc' = "aexit"
    /\ UNCHANGED <<live, reconnect_delay, prevSleep, symbols, toSend, sent, batchLeft, trade,
                   ohlcv_buffer, svars, fvars, nTrades, lost,
                   cooled, msg, sink>>

\* line 135 raises: asyncio.TimeoutError, ConnectionClosed or another
\* exception of the socket
RecvFail ==
    /\ mpc = "recv"
    /\ \E e \in {"Timeout", "Closed", "Other"} : exc' = e
    /\ mpc' = "aexit"
    /\ UNCHANGED <<live, reconnect_delay, prevSleep, symbols, toSend, sent, batchLeft, trade,
                   ohlcv_buffer, svars, fvars, nTrades, lost,
                   cooled, msg, sink>>

\* the shapes of a message that is not a trade message: text that is not
\* JSON, JSON that is not an object, an object whose type is not "trade"
Shapes == {"notjson", "notobject", "other"}

\* line 136: json.loads raises on text that is not JSON; line 137: data.get
\* raises on JSON that is not an object
Decodes(shape) == shape \notin {"notjson", "notobject"}

\* lines 135-137: a message that is not a trade message.  An object of another
\* type fails the test of line 137 and the while loop goes on; the other
\* shapes raise in the try block
RecvOther ==
    /\ mpc = "recv"
    /\ \E shape \in Shapes :
        /\ msg' = shape
        /\ IF Decodes(shape)
           THEN UNCHANGED <<mpc, exc>>
           ELSE /\ exc' = "Other"
                /\ mpc' = "aexit"
    /\ UNCHANGED <<live, reconnect_delay, prevSleep, symbols, toSend, sent, batchLeft, trade,
                   ohlcv_buffer, svars, fvars, nTrades, lost, cooled, sink>>

\* the for loop of line 138 goes on, or the while loop of line 134 does
AfterEntry(left) == IF left = 0 THEN "recv" ELSE "batch"

\* lines 135-138: a trade message; the for loop starts on its data list, whose
\* entries are drawn as the loop reaches them (flush_trade never looks ahead)
RecvTrade ==
    /\ mpc = "recv"
    /\ \E n \in 0..MaxBatch :
        /\ nTrades + n <= MaxTrades
        /\ batchLeft' = n
        /\ mpc' = AfterEntry(n)
    /\ msg' = "trade"
    /\ UNCHANGED <<exc, live, reconnect_delay, prevSleep, symbols, toSend, sent, trade,
                   ohlcv_buffer, svars, fvars, nTrades, lost,
                   cooled, sink>>

\* lines 53-58: trade_info (updated_at is the engine's clock, left out)
TradeInfoNoStamp(e) ==
    [price |-> Get(e, "p", None), timestamp |-> None, volume |-> Get(e, "v", 0)]
TradeInfo(e) ==
    [price |-> Get(e, "p", None), timestamp |-> Get(e, "t", None), volume |-> Get(e, "v", 0)]

\* lines 60-66: the except clause takes a failure of the pipeline, and
\* flush_trade goes on to line 68 either way
AfterPipelineRaise(ok) == IF ok THEN "append" ELSE "aexit"
AfterPipeline(ok) == "append"

\* lines 139, 43-66: flush_trade is called on the next entry.  It raises on an
\* entry without .get and returns at line 51 on one without symbol or price;
\* else the pipeline runs at the store (both keys in one transaction) or
\* fails, and flush_trade is suspended at line 64 until the reply
FlushTradeCall ==
    /\ mpc = "batch"
    /\ batchLeft' = batchLeft - 1
    /\ \E e \in Entries, ok \in BOOLEAN :
        /\ trade' = e
        /\ IF ~e.dict
           THEN /\ exc' = "Other"
                /\ mpc' = "aexit"
                /\ UNCHANGED <<store_price, store_trade, sink>>
           ELSE IF NoSymbolOrPrice(Get(e, "s", None), Get(e, "p", None))
           THEN /\ mpc' = AfterEntry(batchLeft')
                /\ UNCHANGED <<exc, store_price, store_trade, sink>>
           ELSE /\ mpc' = AfterPipeline(ok)
                /\ sink' = IF ok THEN "ok" ELSE "failed"
                /\ IF ok
                   THEN /\ store_price' = [store_price EXCEPT ![Get(e, "s", None)] =
                                              Get(e, "p", None)]
                        /\ store_trade' = [store_trade EXCEPT ![Get(e, "s", None)] =
                                              TradeInfo(e)]
                   ELSE UNCHANGED <<store_price, store_trade>>
                /\ UNCHANGED exc
    /\ UNCHANGED <<live, reconnect_delay, prevSleep, symbols, toSend, sent,
                   ohlcv_buffer, store_ohlcv, fvars, nTrades, lost,
                   cooled, msg>>

\* position of a key in the dict, 0 when it is not a key
KeyPos(buf, sym) ==
    IF \E i \in 1..Len(buf) : buf[i].sym = sym
    THEN CHOOSE i \in 1..Len(buf) : buf[i].sym = sym
    ELSE 0

\* list.append
PushBack(trades, x) == Append(trades, x)

\* lines 69-71
BufferAppendedKeyOnly(buf, sym, sample) ==
    IF KeyPos(buf, sym) = 0
    THEN Append(buf, [sym |-> sym, trades |-> <<>>])
    ELSE [buf EXCEPT ![KeyPos(buf, sym)].trades = PushBack(@, sample)]

BufferAppendedNever(buf, sym, sample) == buf

BufferAppended(buf, sym, sample) ==
    IF KeyPos(buf, sym) = 0
    THEN Append(buf, [sym |-> sym, trades |-> PushBack(<<>>, sample)])
    ELSE [buf EXCEPT ![KeyPos(buf, sym)].trades = PushBack(@, sample)]

\* lines 68-71: flush_trade resumes, appends and returns (its parameter is
\* gone with its frame); the for loop goes on.  The
\* sample carries its history: the flush count at its append, and the flush
\* cycles whose computation read it
BufferAppend ==
    /\ mpc = "append"
    /\ ohlcv_buffer' = BufferAppended(ohlcv_buffer, Get(trade, "s", None),
                           [price |-> Get(trade, "p", None), volume |-> Get(trade, "v", 0),
                            app |-> flushCount, reads |-> {}])
    /\ nTrades' = nTrades + 1
    /\ sink' = "none"
    /\ trade' = NoEntry
    /\ mpc' = AfterEntry(batchLeft)
    /\ UNCHANGED <<exc, live, reconnect_delay, prevSleep, symbols, toSend, sent, batchLeft,
                   svars, fvars, lost,
                   cooled, msg>>

\* line 121, __aexit__: the socket is closed and what belonged to the connection
\* (the symbol set, the loops' positions and variables) is dead; then "continue" goes to the
\* top of the loop and an exception goes to the except clauses
AExit ==
    /\ mpc = "aexit"
    /\ live' = OpenAfterExit(live)
    /\ symbols' = {}
    /\ toSend' = {}
    /\ sent' = [s \in Symbols |-> 0]
    /\ batchLeft' = 0
    /\ trade' = NoEntry
    /\ cooled' = 0
    /\ msg' = "none"
    /\ sink' = "none"
    /\ mpc' = IF exc = "none" THEN "connect" ELSE Handle(exc)
    /\ UNCHANGED <<exc, reconnect_delay, prevSleep, ohlcv_buffer, svars, fvars, nTrades, lost>>

\* lines 148-150: the sleep ends and the delay doubles
BackoffSleep ==
    /\ mpc = "backoff"
    /\ prevSleep' = reconnect_delay
    /\ reconnect_delay' = NextDelay(reconnect_delay)
    /\ exc' = "none"
    /\ mpc' = "connect"
    /\ UNCHANGED <<live, symbols, toSend, sent, batchLeft, trade,
                   ohlcv_buffer, svars, fvars, nTrades, lost,
                   cooled, msg, sink>>

\* ----------------------------------------------------------------- flusher

RECURSIVE PyMax(_)
PyMax(q) == IF Len(q) = 1 THEN q[1]
            ELSE IF q[1] >= PyMax(Tail(q)) THEN q[1] ELSE PyMax(Tail(q))

RECURSIVE PyMin(_)
PyMin(q) == IF Len(q) = 1 THEN q[1]
            ELSE IF q[1] <= PyMin(Tail(q)) THEN q[1] ELSE PyMin(Tail(q))

RECURSIVE PySum(_)
PySum(q) == IF q = <<>> THEN 0 ELSE q[1] + PySum(Tail(q))

\* lines 78-94 (updated_at is the engine's clock, left out)
OhlcvCloseFirst(trades) ==
    LET prices  == [i \in 1..Len(trades) |-> trades[i].price]
        volumes == [i \in 1..Len(trades) |-> trades[i].volume]
    IN  [open   |-> prices[1],
         high   |-> PyMax(prices),
         low    |-> PyMin(prices),
         close  |-> prices[1],
         volume |-> PySum(volumes)]

Ohlcv(trades) ==
    LET prices  == [i \in 1..Len(trades) |-> trades[i].price]
        volumes == [i \in 1..Len(trades) |-> trades[i].volume]
    IN  [open   |-> prices[1],
         high   |-> PyMax(prices),
         low    |-> PyMin(prices),
         close  |-> prices[Len(prices)],
         volume |-> PySum(volumes)]

\* lines 76-77: the next item at or after pos whose list is not empty
RECURSIVE SkipEmpty(_, _)
SkipEmpty(buf, pos) ==
    IF pos > Len(buf) \/ buf[pos].trades # <<>> THEN pos ELSE SkipEmpty(buf, pos + 1)

\* history: the samples of a list are marked as read by a flush cycle
MarkRead(trades, cycle) ==
    [i \in 1..Len(trades) |-> [trades[i] EXCEPT !.reads = @ \cup {cycle}]]

\* history: some sample of the dict was read by no flush cycle
AnyUnread(buf) ==
    \E i \in 1..Len(buf) : \E j \in 1..Len(buf[i].trades) : buf[i].trades[j].reads = {}

\* line 101: dict.clear
ClearedNot(buf) == buf
Cleared(buf) == <<>>

\* line 75: the dict iterator is asked for its next item.  It raises
\* RuntimeError when the dict's size is not what it was when the iterator was
\* made; nothing in flush_ohlcv or periodic_ohlcv_flush catches that, and the
\* task ends.  Past the last item the loop ends and line 101 clears the dict.
\* Else lines 78-99: the record is computed and the hset runs at the store or
\* fails, and flush_ohlcv is suspended at line 97 until the reply
IterNext(pos, used, cycle) ==
    IF Len(ohlcv_buffer) # used
    THEN /\ fpc' = "dead"
         /\ UNCHANGED <<ohlcv_buffer, store_ohlcv, it_pos, it_used, lost, failed>>
    ELSE IF SkipEmpty(ohlcv_buffer, pos) > Len(ohlcv_buffer)
    THEN /\ ohlcv_buffer' = Cleared(ohlcv_buffer)
         /\ lost' = (lost \/ AnyUnread(ohlcv_buffer))
         /\ failed' = {}
         /\ fpc' = "sleep"
         /\ it_pos' = 0
         /\ it_used' = 0
         /\ UNCHANGED store_ohlcv
    ELSE LET at   == SkipEmpty(ohlcv_buffer, pos)
             item == ohlcv_buffer[at]
         IN  /\ \E ok \in BOOLEAN :
                    /\ store_ohlcv' = IF ok THEN [store_ohlcv EXCEPT ![item.sym] = Ohlcv(item.trades)]
                                      ELSE store_ohlcv
                    /\ failed' = IF ok THEN failed ELSE failed \cup {item.sym}
             /\ ohlcv_buffer' = [ohlcv_buffer EXCEPT ![at].trades = MarkRead(@, cycle)]
             /\ it_pos' = at + 1
             /\ it_used' = used
             /\ fpc' = "resume"
             /\ UNCHANGED lost

\* lines 113-114, 74-97: the sleep ends and flush_ohlcv runs to its first await
FlushStart ==
    /\ fpc = "sleep"
    /\ flushCount < MaxFlushes
    /\ flushCount' = flushCount + 1
    /\ IterNext(1, Len(ohlcv_buffer), flushCount + 1)
    /\ UNCHANGED <<mvars, store_price, store_trade, nTrades>>

\* lines 75-101: flush_ohlcv resumes after the hset and goes round the loop
FlushResume ==
    /\ fpc = "resume"
    /\ IterNext(it_pos, it_used, flushCount)
    /\ UNCHANGED <<mvars, store_price, store_trade, flushCount, nTrades>>

\* ---------------------------------------------------------- specification

\* stream_trades, lines 118-150
Manager ==
    \/ ConnectOk \/ ConnectFail \/ GetSymbols \/ Cooldown \/ Subscribe \/ SubscribeFail
    \/ RecvFail \/ RecvOther \/ RecvTrade \/ FlushTradeCall \/ BufferAppend
    \/ AExit \/ BackoffSleep

\* periodic_ohlcv_flush, lines 111-116
Flusher == FlushStart \/ FlushResume

Next == Manager \/ Flusher

\* both tasks, from the start of stream_trades
Spec == Init /\ [][Next]_vars

\* the manager alone.  asyncio resumes a coroutine whose await is over: the
\* close of the socket and the backoff sleep both end
MgrSpec == Init /\ [][Manager]_vars /\ WF_vars(AExit) /\ WF_vars(BackoffSleep)

\* the state stream_trades is in once it has subscribed to every symbol
\* (ConnectOk, GetSymbols, then Subscribe for each)
ReceivingInit ==
    /\ mpc = "recv"
    /\ exc = "none"
    /\ live = 1
    /\ reconnect_delay = floor_delay
    /\ prevSleep = 0
    /\ symbols = Symbols
    /\ toSend = {}
    /\ sent = [s \in Symbols |-> 1]
    /\ batchLeft = 0
    /\ trade = NoEntry
    /\ cooled = 0
    /\ msg = "none"
    /\ sink = "none"
    /\ ohlcv_buffer = <<>>
    /\ store_price = [s \in Symbols |-> None]
    /\ store_trade = [s \in Symbols |-> NoTrade]
    /\ store_ohlcv = [s \in Symbols |-> NoOhlcv]
    /\ fpc = "sleep"
    /\ it_pos = 0
    /\ it_used = 0
    /\ flushCount = 0
    /\ failed = {}
    /\ nTrades = 0
    /\ lost = FALSE

\* the receive loop on one connection, and the flusher
Receiving == RecvOther \/ RecvTrade \/ FlushTradeCall \/ BufferAppend

AggSpec == ReceivingInit /\ [][Receiving \/ Flusher]_vars

\* ------------------------------------------------------------------ claims

Samples(buf) == {buf[i].trades[j] : <<i, j>> \in {<<i, j>> \in (1..Len(buf)) \X (1..MaxTrades) :
                                                     j <= Len(buf[i].trades)}}

\* C1: every sample appended to the buffer is included in the OHLCV
\* computation of exactly one flush cycle, the one in progress when it is
\* appended or the next one; none leaves the buffer unread because an append
\* interleaved with a flush pass.
C1_EverySampleInOneCycle ==
    /\ ~lost
    /\ \A x \in Samples(ohlcv_buffer) :
          /\ Cardinality(x.reads) <= 1
          /\ x.reads \subseteq {x.app, x.app + 1}

\* C2: whenever an invocation of flush_ohlcv ends, normally or not, the
\* buffer holds no sample for any instrument.
FlushEnds == fpc' \in {"sleep", "dead"} /\ (fpc' # fpc \/ flushCount' # flushCount)

C2_BufferEmptyAfterFlush == [][FlushEnds => ohlcv_buffer' = <<>>]_vars

\* C3: the flusher task never stops.
C3_FlusherNeverStops == fpc # "dead"

\* C4: the backoff sleeps since the last successful handshake are 3, 6, 12,
\* 24, 48, 60, 60, ...; a successful handshake sets the delay to 3 and nothing
\* else sets it back to 3.
SleepEnds == mpc = "backoff" /\ mpc' = "connect"
Handshake == mpc = "connect" /\ mpc' = "fetch"

C4_Backoff ==
    [][ /\ SleepEnds => reconnect_delay = (IF prevSleep = 0 THEN 3
                                            ELSE IF 2 * prevSleep < 60 THEN 2 * prevSleep ELSE 60)
        /\ Handshake => reconnect_delay' = 3
        /\ (reconnect_delay' = 3 /\ reconnect_delay # 3) => Handshake ]_vars

C4_Witness == mpc = "backoff" /\ prevSleep = 60 /\ reconnect_delay = 60

\* C5: at most one upstream connection is open in any state, and none is
\* open when a handshake is attempted or when the manager backs off.
C5_OneLive ==
    /\ live \in {0, 1}
    /\ mpc \in {"connect", "backoff"} => live = 0

C5_Witness == mpc = "fetch" /\ live = 1 /\ nTrades > 0

\* C6: no failure takes stream_trades out of its loop, and after every failure
\* the manager comes back to a new handshake attempt.
C6_NeverExits == [](mpc # "exited") /\ ((exc # "none") ~> (mpc = "connect"))

C6_Witness == mpc = "connect" /\ prevSleep > 0 /\ nTrades > 0

\* C7: a connection in the receive loop has sent exactly one subscribe message
\* for each instrument of the fetched set and none for any other, and has
\* nothing left to send; no connection sends more than one per instrument.
C7_Subscribes ==
    /\ \A s \in Symbols : sent[s] <= 1 /\ (sent[s] = 1 => s \in symbols)
    /\ mpc \in {"recv", "batch", "append"} =>
          /\ symbols # {}
          /\ toSend = {}
          /\ \A s \in symbols : sent[s] = 1

C7_Witness == mpc = "recv" /\ symbols = Symbols /\ \A s \in Symbols : sent[s] = 1

\* C8: a call of flush_trade on an entry whose instrument identifier is
\* missing or empty, or whose price is missing, writes nothing to the store,
\* leaves the buffer as it is and raises nothing: the loop goes on.
FlushTradeStep == mpc = "batch" /\ batchLeft' = batchLeft - 1
Missing(e) == e.dict /\ (e.s \in {Absent, EmptySym} \/ e.p = Absent)

C8_MissingDropped ==
    [][ (FlushTradeStep /\ Missing(trade')) =>
            /\ UNCHANGED <<store_price, store_trade, store_ohlcv, ohlcv_buffer, exc, live>>
            /\ mpc' = (IF batchLeft' = 0 THEN "recv" ELSE "batch") ]_vars

C8_Witness == Missing(trade) /\ trade.p = Absent /\ mpc = "batch" /\ nTrades > 0

\* C9: the record flush_ohlcv writes for an instrument has open = price of the
\* first sample of its window, close = price of the last, high = the largest
\* price, low = the smallest, volume = the sum of the volumes; and the window
\* is the appended trades in append order, an absent volume being 0.
RECURSIVE VolumeOf(_)
VolumeOf(w) == IF w = <<>> THEN 0 ELSE VolumeOf(SubSeq(w, 1, Len(w) - 1)) + w[Len(w)].volume

IsOhlcvOf(r, w) ==
    /\ w # <<>>
    /\ r.open = w[1].price
    /\ r.close = w[Len(w)].price
    /\ \E i \in 1..Len(w) : r.high = w[i].price
    /\ \A i \in 1..Len(w) : r.high >= w[i].price
    /\ \E i \in 1..Len(w) : r.low = w[i].price
    /\ \A i \in 1..Len(w) : r.low <= w[i].price
    /\ r.volume = VolumeOf(w)

Window(buf, s) == IF KeyPos(buf, s) = 0 THEN <<>> ELSE buf[KeyPos(buf, s)].trades

AppendStep == mpc = "append" /\ mpc' # "append"

C9_Ohlcv ==
    [][ /\ \A s \in Symbols :
              store_ohlcv'[s] # store_ohlcv[s] => IsOhlcvOf(store_ohlcv'[s], Window(ohlcv_buffer, s))
        /\ AppendStep =>
              LET old == Window(ohlcv_buffer, trade.s)
                  new == Window(ohlcv_buffer', trade.s)
              IN  /\ Len(new) = Len(old) + 1
                  /\ SubSeq(new, 1, Len(old)) = old
                  /\ new[Len(new)].price = trade.p
                  /\ new[Len(new)].volume = (IF trade.v = Absent THEN 0 ELSE trade.v) ]_vars

C9_Witness ==
    \E s \in Symbols : /\ store_ohlcv[s].open = 2
                       /\ store_ohlcv[s].high = 2
                       /\ store_ohlcv[s].low = 1
                       /\ store_ohlcv[s].close = 1
                       /\ store_ohlcv[s].volume = 1

\* C10: an entry of a trade message's data list that is not a well-formed
\* trade is skipped on its own: the for loop goes on to the next entry and
\* the connection stays open.
Malformed(e) == ~e.dict \/ Missing(e)

C10_BadEntrySkipped ==
    [][ (FlushTradeStep /\ Malformed(trade')) =>
            /\ mpc' = (IF batchLeft' = 0 THEN "recv" ELSE "batch")
            /\ exc' = "none" ]_vars

\* C11: when get_symbols returns the empty set the manager sends no subscribe
\* message and does not enter the receive loop; it sleeps 30, leaves the
\* connection block and goes to a new connection attempt (whose success is
\* followed by the fetch) without a backoff sleep, and the reconnect delay is
\* what it was.
FetchStep == mpc = "fetch" /\ mpc' # "fetch"
NoneSent == \A s \in Symbols : sent[s] = 0

C12_EveryExitBacksOff ==
    [][ (mpc # "connect" /\ mpc' = "connect") =>
            /\ mpc = "backoff"
            /\ prevSleep' = reconnect_delay
            /\ reconnect_delay' = (IF 2 * reconnect_delay < 60 THEN 2 * reconnect_delay ELSE 60) ]_vars

\* C13: a timeout of the receive wait closes the connection, the manager
\* sleeps the current backoff delay and comes to a new connection attempt;
\* stream_trades does not end.
C13_TimeoutReconnects ==
    /\ [][ /\ (mpc = "recv" /\ exc' = "Timeout") => mpc' = "aexit"
           /\ (mpc = "aexit" /\ exc = "Timeout" /\ mpc' # "aexit") =>
                 /\ live' = 0
                 /\ mpc' = "backoff"
                 /\ reconnect_delay' = reconnect_delay
           /\ (mpc = "backoff" /\ exc = "Timeout" /\ mpc' # "backoff") =>
                 /\ prevSleep' = reconnect_delay
                 /\ mpc' = "connect" ]_vars
    /\ ((mpc = "aexit" /\ exc = "Timeout") ~> (mpc = "connect"))

C13_Witness == mpc = "aexit" /\ exc = "Timeout" /\ nTrades > 0

\* C14: a flush pass in which a store write failed still ends with every
\* instrument of the buffer visited (the samples of its window read by this
\* pass) and with the buffer cleared, the failed instrument's window included.
Visited(item, cycle) ==
    item.trades # <<>> => \E j \in 1..Len(item.trades) : cycle \in item.trades[j].reads

C14_FailedWriteDoesNotStopPass ==
    [][ (FlushEnds /\ failed # {}) =>
            /\ \A i \in 1..Len(ohlcv_buffer) : Visited(ohlcv_buffer[i], flushCount)
            /\ ohlcv_buffer' = <<>> ]_vars

\* C15: the buffer never holds an instrument whose window is empty (the key
\* and its first sample arrive in one step); the step that writes an
\* instrument's record is no step of the manager, leaves the window's samples
\* as they are, and all five fields of the record come from that one window;
\* an append is no step of the flusher and changes one window only.
Plain(w) == [i \in 1..Len(w) |-> [price |-> w[i].price, volume |-> w[i].volume]]

C15_SingleSnapshot ==
    [][ /\ ohlcv_buffer' # ohlcv_buffer =>
              \A i \in 1..Len(ohlcv_buffer') : ohlcv_buffer'[i].trades # <<>>
        /\ store_ohlcv' # store_ohlcv =>
              \A s \in Symbols :
                  store_ohlcv'[s] # store_ohlcv[s] =>
                      /\ UNCHANGED mvars
                      /\ Plain(Window(ohlcv_buffer', s)) = Plain(Window(ohlcv_buffer, s))
                      /\ IsOhlcvOf(store_ohlcv'[s], Window(ohlcv_buffer', s))
        /\ AppendStep =>
              /\ UNCHANGED <<fvars, store_ohlcv>>
              /\ \A s \in Symbols \ {trade.s} :
                    Window(ohlcv_buffer', s) = Window(ohlcv_buffer, s) ]_vars

C15_Witness ==
    /\ fpc = "resume"
    /\ \E s \in Symbols : store_ohlcv[s] # NoOhlcv
    /\ \E x \in Samples(ohlcv_buffer) : x.app = flushCount /\ x.reads = {}

\* C16: a message that is not a trade message changes neither the store nor
\* the buffer nor the reconnect delay, raises nothing, and leaves the manager
\* in the receive loop of the same connection.
NonTradeStep == mpc = "recv" /\ msg' \in Shapes /\ msg' # msg

C16_NonTradeIgnored ==
    [][ NonTradeStep =>
            /\ UNCHANGED <<store_price, store_trade, store_ohlcv, ohlcv_buffer,
                           reconnect_delay, live>>
            /\ exc' = "none"
            /\ mpc' = "recv" ]_vars

\* C17: when the pipeline of flush_trade fails nothing is written, nothing is
\* raised and the connection stays open: flush_trade goes on to its append
\* and the for loop to the next entry of the batch.
C17_SinkFailureNotFatal ==
    [][ /\ (FlushTradeStep /\ sink' = "failed") =>
              /\ UNCHANGED <<store_price, store_trade, exc, live>>
              /\ mpc' = "append"
        /\ (AppendStep /\ sink = "failed") =>
              /\ UNCHANGED <<exc, live, batchLeft>>
              /\ mpc' = (IF batchLeft = 0 THEN "recv" ELSE "batch") ]_vars

C17_Witness ==
    /\ mpc = "batch"
    /\ batchLeft = 1
    /\ live = 1
    /\ nTrades = 1
    /\ \A s \in Symbols : store_price[s] = None

\* C18: a successful write sets the live price and the trade detail of the
\* trade's instrument to the trade's price, timestamp and volume (0 when
\* absent) and leaves every other instrument's as they are; nothing else
\* changes them.
C18_LatestTrade ==
    [][ /\ (FlushTradeStep /\ sink' = "ok") =>
              /\ store_price'[trade'.s] = trade'.p
              /\ store_trade'[trade'.s] =
                    [price |-> trade'.p, timestamp |-> trade'.t,
                     volume |-> IF trade'.v = Absent THEN 0 ELSE trade'.v]
              /\ \A o \in Symbols \ {trade'.s} :
                    store_price'[o] = store_price[o] /\ store_trade'[o] = store_trade[o]
        /\ (store_price' # store_price \/ store_trade' # store_trade) =>
              (FlushTradeStep /\ sink' = "ok") ]_vars

C18_Witness ==
    /\ mpc = "append"
    /\ sink = "ok"
    /\ Window(ohlcv_buffer, trade.s) # <<>>
    /\ Window(ohlcv_buffer, trade.s)[1].price # trade.p
    /\ store_price[trade.s] = trade.p
    /\ store_trade[trade.s].timestamp = trade.t

\* C19: no sample is read by the computations of two flush cycles.
C19_NoSampleTwice == \A x \in Samples(ohlcv_buffer) : Cardinality(x.reads) <= 1

C19_Witness ==
    /\ fpc = "dead"
    /\ flushCount = 2
    /\ \E x \in Samples(ohlcv_buffer) : x.reads = {2}

\* C20: the append of flush_trade follows the pipeline attempt and happens
\* whatever its outcome: the step of the attempt leaves the buffer as it is,
\* the next step of flush_trade adds the trade to its instrument's window, and
\* no other step but the flusher's changes the buffer.
C20_AppendAfterAttempt ==
    [][ /\ FlushTradeStep => ohlcv_buffer' = ohlcv_buffer
        /\ AppendStep =>
              /\ sink \in {"ok", "failed"}
              /\ Len(Window(ohlcv_buffer', trade.s)) = Len(Window(ohlcv_buffer, trade.s)) + 1
        /\ (ohlcv_buffer' # ohlcv_buffer /\ fvars' = fvars) => AppendStep ]_vars

C20_Witness ==
    \E s \in Symbols : store_ohlcv[s] # NoOhlcv /\ store_price[s] = None
====
